---- MODULE Spec2Model ----
(***************************************************************************)
(* rrm: a "safe delete" utility.  The trash lifecycle manager of           *)
(* src/src/trash.rs over a filesystem of regular files and directories     *)
(* that carry extended attributes.                                         *)
(*                                                                         *)
(* A path is a sequence of components; <<>> is the root.  The filesystem   *)
(* is a function from the paths that exist to the object found there.      *)
(* An attribute is [has, val]: has = FALSE is an absent attribute.         *)
(* A string holding a path is the path; an RFC-3339 string is the triple   *)
(* <<day, time of day, offset from UTC>>; a time is a number of ticks.     *)
(***************************************************************************)
EXTENDS Integers, Sequences, FiniteSets, TLC

VARIABLES fs, next_uuid, origin, last, steps

vars == <<fs, next_uuid, origin, last, steps>>

-----------------------------------------------------------------------------
(* Bounds of the model *)

MaxSteps == 2

MaxIds == 2

MaxTime == 1

MaxBatch == 2

DayLen == 2

-----------------------------------------------------------------------------
(* Names *)

ORIGINAL_PATH_ATTR == "original_path"

DELETION_DATE_ATTR == "deletion_date"

trash_dir == <<"t">>

NonUtf8Names == {"w"}

UserPaths == {<<"a">>, <<"a", "x">>, <<"a", "w">>}

KindAt(p) == IF Len(p) = 1 THEN "dir" ELSE "file"

InputPaths == UserPaths \cup {<<"a", ".", "x">>}

ManualNames == {"m"}

Times == 0..MaxTime

NoAttr == [has |-> FALSE, val |-> <<>>]

Some(v) == [has |-> TRUE, val |-> v]

-----------------------------------------------------------------------------
(* The filesystem primitives the code calls *)

Parent(p) == SubSeq(p, 1, Len(p) - 1)

IsPrefix(a, p) == Len(a) <= Len(p) /\ SubSeq(p, 1, Len(a)) = a

exists(f, p) == p = <<>> \/ p \in DOMAIN f

is_dir(f, p) == p = <<>> \/ (p \in DOMAIN f /\ f[p].kind = "dir")

Subtree(f, p) == {q \in DOMAIN f : IsPrefix(p, q)}

Children(f, p) == {q \in DOMAIN f : Len(q) = Len(p) + 1 /\ IsPrefix(p, q)}

Remove(f, p) == [q \in DOMAIN f \ Subtree(f, p) |-> f[q]]

(* std::fs::rename: the source must exist, the destination's parent must be
   a directory, the destination may not lie inside the source; an existing
   destination is replaced when it is a file (by a file) or an empty
   directory (by a directory). *)
rename_ok(f, src, dst) ==
    /\ src \in DOMAIN f
    /\ dst # <<>>
    /\ is_dir(f, Parent(dst))
    /\ ~IsPrefix(src, dst)
    /\ dst \in DOMAIN f =>
          /\ f[dst].kind = f[src].kind
          /\ Children(f, dst) = {}

Moved(src, dst, q) == dst \o SubSeq(q, Len(src) + 1, Len(q))

(* mutant: the source is unlinked and nothing is put at the destination *)
rename_unlink(f, src, dst) == Remove(f, src)

(* mutant: the source alone is moved and what it holds is lost *)
rename_shallow(f, src, dst) ==
    [q \in (DOMAIN f \ Subtree(f, src)) \cup {dst} |->
        IF q = dst THEN f[src] ELSE f[q]]

rename(f, src, dst) ==
    LET kept == DOMAIN f \ (Subtree(f, src) \cup Subtree(f, dst))
        new  == {Moved(src, dst, q) : q \in Subtree(f, src)}
    IN  [q \in kept \cup new |->
            IF q \in new
            THEN f[src \o SubSeq(q, Len(dst) + 1, Len(q))]
            ELSE f[q]]

(* Path::canonicalize: the absolute path without "." components; it fails
   when nothing exists there. *)
canonical(p) == SelectSeq(p, LAMBDA c : c # ".")

canonicalize_ok(f, p) == canonical(p) \in DOMAIN f

(* Path::to_str: None when a component is not valid UTF-8. *)
to_str_ok(p) == \A i \in 1..Len(p) : p[i] \notin NonUtf8Names

(* PathBuf::set_file_name: pop the last component, then push the new name;
   pushing an absolute path replaces the whole path. *)
set_file_name(p, new_name) ==
    IF new_name.abs THEN new_name.comps ELSE Parent(p) \o new_name.comps

-----------------------------------------------------------------------------
(* Extended attributes (src/src/xattr.rs); the calls act on the object the
   path names. *)

set_attr(f, p, key, value) ==
    [f EXCEPT ![canonical(p)][key] = Some(value)]

(* xattr::get fails when the path names nothing; the environment can make
   any call fail besides. *)
get_attr_ok(f, p) == p \in DOMAIN f

get_attr(f, p, key) == f[p][key]

(* xattr::remove fails on an absent attribute *)
remove_attr_ok(f, p, key) == p \in DOMAIN f /\ f[p][key].has

(* mutant: the attribute is left in place *)
remove_attr_noop(f, p, key) == f

(* mutant: the attribute is removed from every object of the directory *)
remove_attr_siblings(f, p, key) ==
    [q \in DOMAIN f |->
        IF Parent(q) = Parent(p) THEN [f[q] EXCEPT ![key] = NoAttr] ELSE f[q]]

remove_attr(f, p, key) == [f EXCEPT ![p][key] = NoAttr]

(* DateTime::to_rfc3339 of a UTC time, and DateTime::parse_from_rfc3339
   followed by with_timezone(&Utc). *)
(* mutant: the time of day is written with the offset of a local zone *)
to_rfc3339_local(t) == <<t \div DayLen, t % DayLen, 1>>

to_rfc3339(t) == <<t \div DayLen, t % DayLen, 0>>

parse_ok(s) ==
    /\ Len(s) = 3
    /\ s[1] >= 0
    /\ s[2] \in 0..(DayLen - 1)

parse_from_rfc3339(s) == s[1] * DayLen + s[2] - s[3]

-----------------------------------------------------------------------------
(* Arguments, and the record of the last operation: which one, its result
   ("Ok" or the variant of Error, src/src/error.rs), the call it stopped at,
   its arguments and the number of items it moved or deleted. *)

NoRename == [some |-> FALSE, abs |-> FALSE, comps |-> <<>>]

RenameArgs ==
    { NoRename,
      [some |-> TRUE, abs |-> FALSE, comps |-> <<"y">>],
      [some |-> TRUE, abs |-> FALSE, comps |-> <<"s", "y">>],
      [some |-> TRUE, abs |-> TRUE,  comps |-> <<"y">>] }

(* mutant: the identifier is not fresh *)
uuid_constant(n) == "1"

uuid(n) == ToString(n)

IdArgs == {uuid(n) : n \in 1..(MaxIds + 1)} \cup ManualNames

NoFault == [at |-> 0, step |-> "none"]

TrashFaults(paths) ==
    {NoFault} \cup
    [at : 1..Len(paths),
     step : {"set_original_path", "set_deletion_date", "rename"}]

(* the batches of distinct paths *)
Batches ==
    UNION {{b \in [1..n -> InputPaths] :
              \A i, j \in 1..n : b[i] = b[j] => i = j} : n \in 1..MaxBatch}

Did(op, res, step) ==
    [op |-> op, res |-> res, step |-> step, id |-> "", rename |-> NoRename,
     immediate |-> FALSE, now |-> 0, count |-> 0, listed |-> {},
     writes |-> 0]

-----------------------------------------------------------------------------
(* TrashManager::trash_items, one path of the loop.  st = [fs, uuid, origin,
   res, step, writes]; res = "Continue" when the loop goes on to the next
   path, and step is the call that failed otherwise; writes counts the calls
   of set_attr.  fault is the call that the
   environment makes fail with an I/O error ("none": no such call). *)

(* mutant: the item is moved before its deletion date is written *)
trash_one_rename_first(st, path, deletion_date, fault) ==
    IF ~canonicalize_ok(st.fs, path)
    THEN [st EXCEPT !.res = "Io", !.step = "canonicalize"]
    ELSE
    LET original_path == canonical(path) IN
    IF ~to_str_ok(original_path) THEN [st EXCEPT !.res = "Continue"]
    ELSE IF fault = "set_original_path"
    THEN [st EXCEPT !.res = "XAttr", !.step = fault, !.writes = @ + 1]
    ELSE
    LET f1 == set_attr(st.fs, path, ORIGINAL_PATH_ATTR, original_path)
        unique_id == uuid(st.uuid)
        trashed_item_path == Append(trash_dir, unique_id)
    IN
    IF fault = "rename" \/ ~rename_ok(f1, canonical(path), trashed_item_path)
    THEN [st EXCEPT !.fs = f1, !.uuid = @ + 1, !.res = "Io", !.step = "rename",
                    !.writes = @ + 1]
    ELSE
    LET f2 == rename(f1, canonical(path), trashed_item_path) IN
    IF fault = "set_deletion_date"
    THEN [st EXCEPT !.fs = f2, !.uuid = @ + 1, !.res = "XAttr",
                    !.step = fault, !.writes = @ + 2]
    ELSE [fs     |-> set_attr(f2, trashed_item_path, DELETION_DATE_ATTR,
                              to_rfc3339(deletion_date)),
          uuid   |-> st.uuid + 1,
          origin |-> [i \in DOMAIN st.origin \cup {unique_id} |->
                        IF i = unique_id
                        THEN [path |-> original_path, date |-> deletion_date]
                        ELSE st.origin[i]],
          res    |-> "Continue",
          step   |-> "none",
          writes |-> st.writes + 2]

trash_one(st, path, deletion_date, fault) ==
    IF ~canonicalize_ok(st.fs, path)
    THEN [st EXCEPT !.res = "Io", !.step = "canonicalize"]
    ELSE
    LET original_path == canonical(path) IN
    IF ~to_str_ok(original_path) THEN [st EXCEPT !.res = "Continue"]
    ELSE IF fault = "set_original_path"
    THEN [st EXCEPT !.res = "XAttr", !.step = fault, !.writes = @ + 1]
    ELSE
    LET f1 == set_attr(st.fs, path, ORIGINAL_PATH_ATTR, original_path) IN
    IF fault = "set_deletion_date"
    THEN [st EXCEPT !.fs = f1, !.res = "XAttr", !.step = fault,
                    !.writes = @ + 2]
    ELSE
    LET f2 == set_attr(f1, path, DELETION_DATE_ATTR, to_rfc3339(deletion_date))
        unique_id == uuid(st.uuid)
        trashed_item_path == Append(trash_dir, unique_id)
    IN
    IF fault = "rename" \/ ~rename_ok(f2, canonical(path), trashed_item_path)
    THEN [st EXCEPT !.fs = f2, !.uuid = @ + 1, !.res = "Io", !.step = "rename",
                    !.writes = @ + 2]
    ELSE [fs     |-> rename(f2, canonical(path), trashed_item_path),
          uuid   |-> st.uuid + 1,
          origin |-> [i \in DOMAIN st.origin \cup {unique_id} |->
                        IF i = unique_id
                        THEN [path |-> original_path, date |-> deletion_date]
                        ELSE st.origin[i]],
          res    |-> "Continue",
          step   |-> "none",
          writes |-> st.writes + 2]

RECURSIVE trash_loop(_, _, _, _, _)
trash_loop(st, paths, i, deletion_date, flt) ==
    IF i > Len(paths) THEN [st EXCEPT !.res = "Ok"]
    ELSE LET r == trash_one(st, paths[i], deletion_date,
                            IF flt.at = i THEN flt.step ELSE "none")
         IN  IF r.res = "Continue"
             THEN trash_loop(r, paths, i + 1, deletion_date, flt)
             ELSE r

trash_result(f, paths, deletion_date, flt) ==
    trash_loop([fs |-> f, uuid |-> next_uuid, origin |-> origin,
                res |-> "Continue", step |-> "none", writes |-> 0],
               paths, 1, deletion_date, flt)

trash_items(paths, deletion_date, flt) ==
    LET r == trash_result(fs, paths, deletion_date, flt)
    IN  /\ r.uuid <= MaxIds + 1
        /\ flt # NoFault => r.step = flt.step
        /\ fs' = r.fs
        /\ next_uuid' = r.uuid
        /\ origin' = r.origin
        /\ last' = [Did("trash_items", r.res, r.step) EXCEPT
                      !.count = Cardinality(DOMAIN r.origin \ DOMAIN origin),
                      !.writes = r.writes]

-----------------------------------------------------------------------------
(* TrashManager::list_items.  unreadable: the children whose directory entry
   or attributes cannot be read (an I/O error); the result is a Vec in the
   order of read_dir, which is no particular order: a set. *)

item_id(name) == IF name \in NonUtf8Names THEN "<Invalid UTF-8>" ELSE name

(* mutant: the check of original_path is left out *)
listable_without_original_path(f, path, unreadable) ==
    /\ path \notin unreadable
    /\ get_attr(f, path, DELETION_DATE_ATTR).has
    /\ parse_ok(get_attr(f, path, DELETION_DATE_ATTR).val)

listable(f, path, unreadable) ==
    /\ path \notin unreadable
    /\ get_attr(f, path, ORIGINAL_PATH_ATTR).has
    /\ get_attr(f, path, DELETION_DATE_ATTR).has
    /\ parse_ok(get_attr(f, path, DELETION_DATE_ATTR).val)

list_items(f, unreadable) ==
    { [id            |-> item_id(path[Len(path)]),
       path          |-> path,
       original_path |-> get_attr(f, path, ORIGINAL_PATH_ATTR).val,
       deletion_date |->
           parse_from_rfc3339(get_attr(f, path, DELETION_DATE_ATTR).val)]
      : path \in {c \in Children(f, trash_dir) : listable(f, c, unreadable)} }

(* The call of list_items: read_dir_fails, reading the trash directory itself
   fails, which is the one error; handle_list (without a path filter) shows
   the items returned. *)

(* mutant: a child that cannot be read fails the call *)
list_result_strict(f, unreadable, read_dir_fails) ==
    IF read_dir_fails \/ unreadable # {}
    THEN [res |-> "Io", step |-> "read_dir", items |-> {}]
    ELSE [res |-> "Ok", step |-> "none", items |-> list_items(f, unreadable)]

list_result(f, unreadable, read_dir_fails) ==
    IF read_dir_fails
    THEN [res |-> "Io", step |-> "read_dir", items |-> {}]
    ELSE [res |-> "Ok", step |-> "none", items |-> list_items(f, unreadable)]

handle_list(unreadable, read_dir_fails) ==
    LET r == list_result(fs, unreadable, read_dir_fails)
    IN  /\ read_dir_fails => unreadable = {}
        /\ last' = [Did("list_items", r.res, r.step) EXCEPT
                      !.listed = {item.id : item \in r.items},
                      !.count = Cardinality(r.items)]
        /\ UNCHANGED <<fs, next_uuid, origin>>

-----------------------------------------------------------------------------
(* TrashManager::restore_item_by_id.  fault is the call that the environment
   makes fail with an I/O error.  The result is [fs, res, step]. *)

RestoreFaults ==
    {"none", "get_attr", "remove_original_path", "remove_deletion_date", "rename"}

(* mutant: the trash directory is looked up, not the item *)
item_not_found_trash_dir(f, item_path) == ~exists(f, Parent(item_path))

item_not_found(f, item_path) == ~exists(f, item_path)

(* mutant: unwrap_or_default, an absent attribute reads as the empty path *)
missing_attribute_default(attr) == FALSE

missing_attribute(attr) == ~attr.has

restore_destination(original_path, rename_arg) ==
    IF rename_arg.some THEN set_file_name(original_path, rename_arg)
    ELSE original_path

(* mutant: is_dir() in place of exists() *)
path_already_exists_dir(f, original_path) == is_dir(f, original_path)

path_already_exists(f, original_path) == exists(f, original_path)

(* mutant: only asks whether the path has a parent *)
invalid_original_path_no_parent(f, original_path) == original_path = <<>>

invalid_original_path(f, original_path) ==
    original_path # <<>> /\ ~exists(f, Parent(original_path))

(* mutant: the item is copied to the destination and stays in the trash *)
restore_move_copy(f, item_path, original_path) ==
    [q \in DOMAIN f \cup {Moved(item_path, original_path, r) :
                              r \in Subtree(f, item_path)} |->
        IF q \in DOMAIN f THEN f[q]
        ELSE f[item_path \o SubSeq(q, Len(original_path) + 1, Len(q))]]

restore_move(f, item_path, original_path) ==
    rename(f, item_path, original_path)

restore_result(f, id, rename_arg, fault) ==
    LET item_path == Append(trash_dir, id)
        stop(g, res, step) == [fs |-> g, res |-> res, step |-> step]
    IN
    IF item_not_found(f, item_path) THEN stop(f, "ItemNotFound", "exists")
    ELSE IF fault = "get_attr" \/ ~get_attr_ok(f, item_path)
    THEN stop(f, "XAttr", "get_attr")
    ELSE IF missing_attribute(get_attr(f, item_path, ORIGINAL_PATH_ATTR))
    THEN stop(f, "MissingAttribute", "ok_or_else")
    ELSE
    LET original_path ==
            restore_destination(get_attr(f, item_path, ORIGINAL_PATH_ATTR).val,
                                rename_arg)
    IN
    IF path_already_exists(f, original_path)
    THEN stop(f, "PathAlreadyExists", "exists")
    ELSE IF invalid_original_path(f, original_path)
    THEN stop(f, "InvalidOriginalPath", "parent")
    ELSE IF fault = "remove_original_path"
            \/ ~remove_attr_ok(f, item_path, ORIGINAL_PATH_ATTR)
    THEN stop(f, "XAttr", "remove_original_path")
    ELSE
    LET f1 == remove_attr(f, item_path, ORIGINAL_PATH_ATTR) IN
    IF fault = "remove_deletion_date"
       \/ ~remove_attr_ok(f1, item_path, DELETION_DATE_ATTR)
    THEN stop(f1, "XAttr", "remove_deletion_date")
    ELSE
    LET f2 == remove_attr(f1, item_path, DELETION_DATE_ATTR) IN
    IF fault = "rename" \/ ~rename_ok(f2, item_path, original_path)
    THEN stop(f2, "Io", "rename")
    ELSE stop(restore_move(f2, item_path, original_path), "Ok", "none")

restore_item_by_id(id, rename_arg, fault) ==
    LET r == restore_result(fs, id, rename_arg, fault)
    IN  /\ fault # "none" => r.step = fault
        /\ fs' = r.fs
        /\ last' = [Did("restore_item_by_id", r.res, r.step) EXCEPT
                      !.id = id, !.rename = rename_arg,
                      !.count = IF r.res = "Ok" THEN 1 ELSE 0]
        /\ UNCHANGED <<next_uuid, origin>>

-----------------------------------------------------------------------------
(* TrashManager::clean_trash and delete_item_permanently.  now is the value
   of Utc::now(); unreadable as for list_items; read_dir_fails: reading the
   trash directory itself fails; failing is the path of the listed item whose
   deletion fails with an I/O error (<<>>: none), and done the items the
   loop deleted before it reached that one. *)

(* mutant: the attributes are cleared and the object is left *)
delete_item_permanently_strip(f, item) ==
    [f EXCEPT ![item.path].original_path = NoAttr,
              ![item.path].deletion_date = NoAttr]

delete_item_permanently(f, item) == Remove(f, item.path)

RECURSIVE delete_all(_, _)
delete_all(f, items) ==
    IF items = {} THEN f
    ELSE LET item == CHOOSE i \in items : TRUE
         IN  delete_all(delete_item_permanently(f, item), items \ {item})

(* mutant: an entry whose deletion date is now is deleted too *)
to_delete_inclusive(f, items, immediate, now) ==
    {item \in items :
        (immediate \/ item.deletion_date <= now) /\ exists(f, item.path)}

(* mutant: the immediate flag is not looked at *)
to_delete_expired_only(f, items, immediate, now) ==
    {item \in items : item.deletion_date < now /\ exists(f, item.path)}

(* mutant: the loop does not look whether the path exists *)
to_delete_unchecked(f, items, immediate, now) ==
    {item \in items : immediate \/ item.deletion_date < now}

to_delete(f, items, immediate, now) ==
    {item \in items :
        (immediate \/ item.deletion_date < now) /\ exists(f, item.path)}

clean_trash(immediate, now, unreadable, read_dir_fails, failing, done) ==
    LET items == list_items(fs, unreadable)
        due   == to_delete(fs, items, immediate, now)
        did(res, step, items_deleted) ==
            [Did("clean_trash", res, step) EXCEPT
                !.immediate = immediate, !.now = now, !.count = items_deleted]
    IN  /\ \/ /\ read_dir_fails
              /\ unreadable = {} /\ failing = <<>> /\ done = {}
              /\ fs' = fs
              /\ last' = did("Io", "read_dir", 0)
           \/ /\ ~read_dir_fails
              /\ failing = <<>> /\ done = {}
              /\ fs' = delete_all(fs, due)
              /\ last' = did("Ok", "none", Cardinality(due))
           \/ /\ ~read_dir_fails
              /\ failing \in {item.path : item \in due}
              /\ done \subseteq {item \in due : item.path # failing}
              /\ fs' = delete_all(fs, done)
              /\ last' = did("Io", "remove", Cardinality(done))
        /\ UNCHANGED <<next_uuid, origin>>

-----------------------------------------------------------------------------
(* The user, outside the program: creates a file or a directory, and puts
   an object into the trash directory by hand, without the attributes or
   with attributes of its own making. *)

Object(kind) ==
    [kind |-> kind, original_path |-> NoAttr, deletion_date |-> NoAttr,
     trash_dir |-> NoAttr, grace_period_in_days |-> NoAttr]

Put(f, p, obj) == [q \in DOMAIN f \cup {p} |-> IF q = p THEN obj ELSE f[q]]

user_creates(p) ==
    /\ ~exists(fs, p)
    /\ is_dir(fs, Parent(p))
    /\ fs' = Put(fs, p, Object(KindAt(p)))
    /\ last' = Did("user", "Ok", "none")
    /\ UNCHANGED <<next_uuid, origin>>

ManualAttrs ==
    { [original_path |-> NoAttr, deletion_date |-> NoAttr],
      [original_path |-> Some(<<"a", "x">>), deletion_date |-> NoAttr],
      [original_path |-> NoAttr, deletion_date |-> Some(to_rfc3339(0))],
      [original_path |-> Some(<<"a", "x">>), deletion_date |-> Some(<<0>>)],
      [original_path |-> Some(<<"a", "x">>), deletion_date |-> Some(<<0, 1, 1>>)] }

user_places_in_trash(name, attrs) ==
    /\ ~exists(fs, Append(trash_dir, name))
    /\ fs' = Put(fs, Append(trash_dir, name),
                 [Object("file") EXCEPT
                     !.original_path = attrs.original_path,
                     !.deletion_date = attrs.deletion_date])
    /\ last' = Did("user", "Ok", "none")
    /\ UNCHANGED <<next_uuid, origin>>

-----------------------------------------------------------------------------
(* The configuration (src/src/config.rs).  The trash directory is named by
   an attribute of the binary, the grace period by an attribute of the trash
   directory.  A string of characters is the sequence of its characters; a
   string that names a path is the path, and <<>> is the empty string. *)

bin_path == <<"b">>

TRASH_DIR_ATTR == "trash_dir"

GRACE_PERIOD_ATTR == "grace_period_in_days"

TRASH_DIR_NAME == trash_dir

DEFAULT_GRACE_PERIOD_IN_DAYS == 7

(* The last day a DateTime<Utc> holds: checked_add_signed is None past it *)
MaxDay == 8

Digits == {"0", "1", "2", "3", "4", "5", "6", "7", "8", "9"}

DigitValue(c) == CHOOSE n \in 0..9 : ToString(n) = c

RECURSIVE DigitsValue(_)
DigitsValue(s) ==
    IF s = <<>> THEN 0
    ELSE 10 * DigitsValue(Parent(s)) + DigitValue(s[Len(s)])

(* str::parse::<u32>: an optional "+", then one digit or more *)
Unsigned(s) == IF s # <<>> /\ s[1] = "+" THEN Tail(s) ELSE s

parse_u32_ok(s) ==
    /\ Unsigned(s) # <<>>
    /\ \A i \in 1..Len(Unsigned(s)) : Unsigned(s)[i] \in Digits

parse_u32(s) == DigitsValue(Unsigned(s))

(* u32::to_string *)
RECURSIVE to_string(_)
to_string(n) ==
    IF n < 10 THEN <<ToString(n)>>
    ELSE Append(to_string(n \div 10), ToString(n % 10))

(* The values of the trash_dir attribute: the empty string, the default
   directory, a directory of its own whose parent exists, and one whose
   parent does not exist. *)
TrashDirValues == {<<>>, TRASH_DIR_NAME, <<"u">>, <<"n", "u">>}

(* The grace periods given on the command line or set in the configuration,
   the last one past what a date can hold *)
GraceValues == {0, 1, MaxDay + 1}

(* The values of the grace_period_in_days attribute, and of the value
   argument of config set *)
GraceStrings ==
    {to_string(g) : g \in GraceValues} \cup {<<>>, <<"x">>, <<"+", "1">>}

LoadFaults ==
    {"none", "current_exe", "get_trash_dir", "create_dir", "get_grace_period"}

trash_path(attr) ==
    IF attr.has /\ attr.val # <<>> THEN attr.val ELSE TRASH_DIR_NAME

parse_grace_period(attr) ==
    IF attr.has /\ parse_u32_ok(attr.val) THEN parse_u32(attr.val)
    ELSE DEFAULT_GRACE_PERIOD_IN_DAYS

(* ensure_trash_folder: [res, fs] *)
ensure_trash_folder(f, path, fault) ==
    IF exists(f, path) THEN [res |-> "Ok", fs |-> f]
    ELSE IF fault = "create_dir" \/ ~is_dir(f, Parent(path))
    THEN [res |-> "Io", fs |-> f]
    ELSE [res |-> "Ok", fs |-> Put(f, path, Object("dir"))]

(* Config::load: [res, step, fs, trash_dir, grace_period_in_days]; fault is
   the call that the environment makes fail. *)
load(f, fault) ==
    LET failed(res, step) ==
            [res |-> res, step |-> step, fs |-> f, trash_dir |-> <<>>,
             grace_period_in_days |-> 0]
        path == trash_path(get_attr(f, bin_path, TRASH_DIR_ATTR))
        dir  == ensure_trash_folder(f, path, fault)
    IN  IF fault = "current_exe" THEN failed("Io", "current_exe")
        ELSE IF fault = "get_trash_dir" \/ ~get_attr_ok(f, bin_path)
        THEN failed("XAttr", "get_trash_dir")
        ELSE IF dir.res # "Ok" THEN failed("Io", "create_dir")
        ELSE IF fault = "get_grace_period"
        THEN [failed("XAttr", "get_grace_period") EXCEPT !.fs = dir.fs]
        ELSE [res |-> "Ok", step |-> "none", fs |-> dir.fs,
              trash_dir |-> path,
              grace_period_in_days |->
                  parse_grace_period(get_attr(dir.fs, path, GRACE_PERIOD_ATTR))]

-----------------------------------------------------------------------------
(* The system: the operations of the trash manager and the user's doings,
   MaxSteps of them.  Every command constructs the manager anew over the
   trash directory that the commands before it left (main.rs, run): it
   starts over an empty trash directory, or over one that holds an item
   trashed earlier from /a/x at time 0, where /a/x has been created again
   since. *)

Fresh == [p \in {trash_dir, <<"a">>, <<"a", "x">>} |-> Object(KindAt(p))]

Earlier ==
    LET r == trash_loop([fs |-> Fresh, uuid |-> 1, origin |-> <<>>,
                         res |-> "Continue", step |-> "none", writes |-> 0],
                        << <<"a", "x">> >>, 1, 0, NoFault)
    IN  [r EXCEPT !.fs = Put(r.fs, <<"a", "x">>, Object("file"))]

Init ==
    /\ \/ fs = Fresh /\ next_uuid = 1 /\ origin = <<>>
       \/ /\ fs = Earlier.fs
          /\ next_uuid = Earlier.uuid
          /\ origin = Earlier.origin
    /\ last = Did("new", "Ok", "none")
    /\ steps = 0

Step == steps < MaxSteps /\ steps' = steps + 1

(* The loop of trash_items returns at the first path that fails and never
   looks at the paths after it, so a batch that fails before its last path
   does what its prefix up to that path does: the batches taken here are
   those whose paths before the last all exist, with the failing call, if
   any, at the last path. *)
TrashItems ==
    /\ Step
    /\ \E paths \in Batches, d \in Times :
          /\ \A i \in 1..(Len(paths) - 1) : canonicalize_ok(fs, paths[i])
          /\ \E flt \in TrashFaults(paths) :
                /\ flt.at \in {0, Len(paths)}
                /\ trash_items(paths, d, flt)

RestoreItemById ==
    /\ Step
    /\ \E id \in IdArgs, rn \in RenameArgs, flt \in RestoreFaults :
          restore_item_by_id(id, rn, flt)

(* A child that list_items skips for its attributes is skipped the same
   when it cannot be read: the unreadable children taken here are among
   those that list_items would return. *)
CleanTrash ==
    /\ Step
    /\ \E immediate \in BOOLEAN, now \in Times,
          unreadable \in SUBSET {item.path : item \in list_items(fs, {})} :
          \/ clean_trash(immediate, now, unreadable, FALSE, <<>>, {})
          \/ clean_trash(immediate, now, {}, TRUE, <<>>, {})
          \/ \E failing \in Children(fs, trash_dir),
                done \in SUBSET list_items(fs, {}) :
                clean_trash(immediate, now, unreadable, FALSE, failing, done)

HandleList ==
    /\ Step
    /\ \E unreadable \in SUBSET {item.path : item \in list_items(fs, {})},
          read_dir_fails \in BOOLEAN :
          handle_list(unreadable, read_dir_fails)

UserCreates == Step /\ \E p \in UserPaths : user_creates(p)

UserPlacesInTrash ==
    /\ Step
    /\ \E name \in ManualNames, attrs \in ManualAttrs :
          user_places_in_trash(name, attrs)

Next ==
    \/ TrashItems
    \/ RestoreItemById
    \/ CleanTrash
    \/ HandleList
    \/ UserCreates
    \/ UserPlacesInTrash

Spec == Init /\ [][Next]_vars

-----------------------------------------------------------------------------
(* The rm command (src/src/commands/rm.rs).  args = [paths, immediate,
   auto_clean, grace_period_in_days], the last an Option. *)

NoGrace == [has |-> FALSE, val |-> 0]

(* The paths of a run of rm: the batches of paths as the user writes them,
   without "." *)
RmBatches == {b \in Batches : \A i \in 1..Len(b) : b[i] \in UserPaths}

RmArgs ==
    [paths : RmBatches, immediate : BOOLEAN, auto_clean : BOOLEAN,
     grace_period_in_days : {NoGrace} \cup {Some(g) : g \in GraceValues}]

(* mutant: the grace period of the configuration, whatever the arguments *)
grace_period_configured(args, config) == config.grace_period_in_days

grace_period(args, config) ==
    IF args.grace_period_in_days.has THEN args.grace_period_in_days.val
    ELSE config.grace_period_in_days

(* DateTime::checked_add_signed(Duration::days(g)) *)
checked_add_signed_ok(now, g) == now + g * DayLen < (MaxDay + 1) * DayLen

checked_add_signed(now, g) == now + g * DayLen

(* mutant: every path is passed on *)
existing_paths_unfiltered(f, paths) == paths

existing_paths(f, paths) == SelectSeq(paths, LAMBDA p : canonicalize_ok(f, p))

(* the paths that get the warning "No such file or directory" *)
warned_paths(f, paths) ==
    {paths[i] : i \in {j \in 1..Len(paths) : ~canonicalize_ok(f, paths[j])}}

RECURSIVE delete_paths(_, _, _)
delete_paths(f, paths, i) ==
    IF i > Len(paths) THEN f
    ELSE IF ~canonicalize_ok(f, paths[i]) THEN delete_paths(f, paths, i + 1)
    ELSE delete_paths(Remove(f, canonical(paths[i])), paths, i + 1)

(* handle_rm over the trash directory TRASH_DIR_NAME: [res, step, fs, uuid,
   origin, warned, count].  now is the time read at rm.rs:46, clean_now the
   time that clean_trash reads after it. *)
handle_rm(f, config, args, now, clean_now) ==
    LET g     == grace_period(args, config)
        paths == existing_paths(f, args.paths)
        t     == trash_result(f, paths, checked_add_signed(now, g), NoFault)
        due   == to_delete(t.fs, list_items(t.fs, {}), FALSE, clean_now)
        out(res, step, h, u, o, warned) ==
            [res |-> res, step |-> step, fs |-> h, uuid |-> u, origin |-> o,
             warned |-> warned,
             count |-> Cardinality(DOMAIN o \ DOMAIN origin)]
    IN  IF args.immediate
        THEN out("Ok", "none", delete_paths(f, args.paths, 1), next_uuid,
                 origin, warned_paths(f, args.paths))
        ELSE IF ~checked_add_signed_ok(now, g)
        THEN out("Panic", "checked_add_signed", f, next_uuid, origin, {})
        ELSE IF t.res # "Ok" \/ ~args.auto_clean
        THEN out(t.res, t.step, t.fs, t.uuid, t.origin,
                 warned_paths(f, args.paths))
        ELSE out("Ok", "none", delete_all(t.fs, due), t.uuid, t.origin,
                 warned_paths(f, args.paths))

-----------------------------------------------------------------------------
(* The config command (src/src/commands/config.rs): [res, step, fs, said];
   said is what the command prints. *)

ConfigKeys == {"trash-dir", "grace-period"}

handle_config_get(f, config, key) ==
    [res |-> "Ok", step |-> "none", fs |-> f,
     said |-> IF key = "trash-dir" THEN config.trash_dir
              ELSE to_string(config.grace_period_in_days)]

handle_config_set(f, config, key, value, fault) ==
    IF key = "grace-period" /\ ~parse_u32_ok(value)
    THEN [res |-> "Ok", step |-> "none", fs |-> f,
          said |-> "Grace period must be a positive integer."]
    ELSE IF fault
    THEN [res |-> "XAttr", step |-> "set_attr", fs |-> f, said |-> ""]
    ELSE IF key = "trash-dir"
    THEN [res |-> "Ok", step |-> "none",
          fs |-> set_attr(f, bin_path, TRASH_DIR_ATTR, value),
          said |-> value]
    ELSE [res |-> "Ok", step |-> "none",
          fs |-> set_attr(f, config.trash_dir, GRACE_PERIOD_ATTR,
                          to_string(parse_u32(value))),
          said |-> to_string(parse_u32(value))]

-----------------------------------------------------------------------------
(* One run of the program (main.rs, run): the configuration is loaded, then
   the command is handled.  last is what the run did: the command, its
   result, the configuration it loaded and what its arguments were. *)

Ran(op, c, res, step) ==
    [op |-> op, res |-> res, step |-> step, fault |-> "none",
     load |-> c.res, trash_dir |-> c.trash_dir,
     grace_period_in_days |-> c.grace_period_in_days,
     args |-> <<>>, now |-> 0, clean_now |-> 0, warned |-> {}, count |-> 0,
     said |-> ""]

run_fails(op, c, fault) ==
    /\ c.res # "Ok"
    /\ fs' = c.fs
    /\ last' = [Ran(op, c, c.res, c.step) EXCEPT !.fault = fault]
    /\ UNCHANGED <<next_uuid, origin>>

run_rm(fault, args, now, clean_now) ==
    LET c == load(fs, fault)
        r == handle_rm(c.fs, c, args, now, clean_now)
    IN  \/ run_fails("rm", c, fault)
        \/ /\ c.res = "Ok"
           /\ c.trash_dir = TRASH_DIR_NAME
           /\ r.uuid <= MaxIds + 1
           /\ fs' = r.fs
           /\ next_uuid' = r.uuid
           /\ origin' = r.origin
           /\ last' = [Ran("rm", c, r.res, r.step) EXCEPT
                         !.args = args, !.now = now, !.clean_now = clean_now,
                         !.warned = r.warned, !.count = r.count]

run_config_get(fault, key) ==
    LET c == load(fs, fault)
        r == handle_config_get(c.fs, c, key)
    IN  \/ run_fails("config_get", c, fault)
        \/ /\ c.res = "Ok"
           /\ fs' = r.fs
           /\ last' = [Ran("config_get", c, r.res, r.step) EXCEPT
                         !.args = <<key>>, !.said = r.said]
           /\ UNCHANGED <<next_uuid, origin>>

run_config_set(fault, key, value, set_fails) ==
    LET c == load(fs, fault)
        r == handle_config_set(c.fs, c, key, value, set_fails)
    IN  \/ run_fails("config_set", c, fault)
        \/ /\ c.res = "Ok"
           /\ set_fails => r.step = "set_attr"
           /\ fs' = r.fs
           /\ last' = [Ran("config_set", c, r.res, r.step) EXCEPT
                         !.args = <<key, value>>, !.said = r.said]
           /\ UNCHANGED <<next_uuid, origin>>

(* The restore, clean and list commands over the trash directory
   TRASH_DIR_NAME (commands/restore.rs, clean.rs, list.rs); the calls of the
   trash manager are made without a failure of the environment here. *)
run_restore(fault, id, rename_arg) ==
    LET c == load(fs, fault)
        r == restore_result(c.fs, id, rename_arg, "none")
    IN  \/ run_fails("restore", c, fault)
        \/ /\ c.res = "Ok"
           /\ c.trash_dir = TRASH_DIR_NAME
           /\ fs' = r.fs
           /\ last' = [Ran("restore", c, r.res, r.step) EXCEPT
                         !.args = <<id, rename_arg>>,
                         !.count = IF r.res = "Ok" THEN 1 ELSE 0]
           /\ UNCHANGED <<next_uuid, origin>>

run_clean(fault, immediate, now) ==
    LET c   == load(fs, fault)
        due == to_delete(c.fs, list_items(c.fs, {}), immediate, now)
    IN  \/ run_fails("clean", c, fault)
        \/ /\ c.res = "Ok"
           /\ c.trash_dir = TRASH_DIR_NAME
           /\ fs' = delete_all(c.fs, due)
           /\ last' = [Ran("clean", c, "Ok", "none") EXCEPT
                         !.args = <<immediate>>, !.now = now,
                         !.count = Cardinality(due)]
           /\ UNCHANGED <<next_uuid, origin>>

run_list(fault) ==
    LET c == load(fs, fault)
        r == list_result(c.fs, {}, FALSE)
    IN  \/ run_fails("list", c, fault)
        \/ /\ c.res = "Ok"
           /\ c.trash_dir = TRASH_DIR_NAME
           /\ fs' = c.fs
           /\ last' = [Ran("list", c, r.res, r.step) EXCEPT
                         !.count = Cardinality(r.items)]
           /\ UNCHANGED <<next_uuid, origin>>

(* The user sets an attribute by hand, as with setfattr *)
user_sets_attr(p, key, value) ==
    /\ exists(fs, p)
    /\ fs' = set_attr(fs, p, key, value)
    /\ last' = Did("user", "Ok", "none")
    /\ UNCHANGED <<next_uuid, origin>>

(* The first run finds the binary and no trash directory; a later run finds
   the trash directory that the runs before it left. *)
FirstRun == [p \in {bin_path, <<"a">>, <<"a", "x">>} |-> Object(KindAt(p))]

CliInit ==
    /\ \/ fs = FirstRun /\ next_uuid = 1 /\ origin = <<>>
       \/ /\ fs = Put(Fresh, bin_path, Object("file"))
          /\ next_uuid = 1
          /\ origin = <<>>
       \/ /\ fs = Put(Earlier.fs, bin_path, Object("file"))
          /\ next_uuid = Earlier.uuid
          /\ origin = Earlier.origin
    /\ last = Did("new", "Ok", "none")
    /\ steps = 0

(* What a run of rm does depends on the filesystem it finds and on nothing
   else of the runs before it: a run of rm is the last run taken.  The
   arguments and times taken are those that the run reads: none when load
   fails, the paths alone with --immediate, and the time of clean_trash
   with --auto-clean only. *)
RunRm ==
    /\ steps < MaxSteps
    /\ steps' = MaxSteps
    /\ \/ \E fault \in LoadFaults :
             /\ load(fs, fault).res # "Ok"
             /\ run_rm(fault, [paths |-> << <<"a">> >>, immediate |-> TRUE,
                               auto_clean |-> FALSE,
                               grace_period_in_days |-> NoGrace], 0, 0)
       \/ /\ load(fs, "none").res = "Ok"
          /\ load(fs, "none").trash_dir = TRASH_DIR_NAME
          /\ \E paths \in RmBatches :
                \/ run_rm("none", [paths |-> paths, immediate |-> TRUE,
                                   auto_clean |-> FALSE,
                                   grace_period_in_days |-> NoGrace], 0, 0)
                \/ \E auto_clean \in BOOLEAN, now \in Times,
                      g \in {NoGrace} \cup {Some(d) : d \in GraceValues} :
                      \E clean_now \in IF auto_clean THEN now..MaxTime
                                       ELSE {now} :
                         run_rm("none",
                                [paths |-> paths, immediate |-> FALSE,
                                 auto_clean |-> auto_clean,
                                 grace_period_in_days |-> g], now, clean_now)

RunConfigGet ==
    /\ Step
    /\ \E fault \in LoadFaults, key \in ConfigKeys :
          run_config_get(fault, key)

RunConfigSet ==
    /\ Step
    /\ \E fault \in LoadFaults, key \in ConfigKeys,
          value \in TrashDirValues \cup GraceStrings, set_fails \in BOOLEAN :
          /\ key = "trash-dir" => value \in TrashDirValues
          /\ key = "grace-period" => value \in GraceStrings
          /\ run_config_set(fault, key, value, set_fails)

UserSetsAttr ==
    /\ Step
    /\ \/ \E value \in TrashDirValues :
             user_sets_attr(bin_path, TRASH_DIR_ATTR, value)
       \/ \E p \in {TRASH_DIR_NAME, <<"u">>}, value \in GraceStrings :
             user_sets_attr(p, GRACE_PERIOD_ATTR, value)

(* As a run of rm, a run of restore, clean or list is the last run taken *)
LastRun == steps < MaxSteps /\ steps' = MaxSteps

RunRestore ==
    /\ LastRun
    /\ \/ \E fault \in LoadFaults :
             /\ load(fs, fault).res # "Ok"
             /\ run_restore(fault, uuid(1), NoRename)
       \/ \E id \in IdArgs, rn \in RenameArgs : run_restore("none", id, rn)

RunClean ==
    /\ LastRun
    /\ \/ \E fault \in LoadFaults :
             /\ load(fs, fault).res # "Ok"
             /\ run_clean(fault, FALSE, 0)
       \/ \E immediate \in BOOLEAN, now \in Times :
             run_clean("none", immediate, now)

RunList == LastRun /\ \E fault \in LoadFaults : run_list(fault)

CliNext ==
    \/ RunRm
    \/ RunRestore
    \/ RunClean
    \/ RunList
    \/ RunConfigGet
    \/ RunConfigSet
    \/ UserSetsAttr

CliSpec == CliInit /\ [][CliNext]_vars

-----------------------------------------------------------------------------
(* clean_trash, call by call, while other invocations of the program run
   (trash.rs 198-226).  last is the call under way: pc is where it stands,
   items what list_items returned, todo the items the loop has not reached,
   item the one it is at, skipped the ones it found gone.  steps counts what
   the other invocations do. *)

NoItem == [id |-> "", path |-> <<>>, original_path |-> <<>>,
           deletion_date |-> 0]

Purging(pc, res, step) ==
    [op |-> "clean_trash", res |-> res, step |-> step, pc |-> pc,
     immediate |-> FALSE, now |-> 0, items |-> {}, todo |-> {},
     item |-> NoItem, skipped |-> {}, count |-> 0]

(* trash.rs 199-201: list_items, then Utc::now() *)
purge_list(immediate, now) ==
    /\ last.pc = "list"
    /\ last' = [last EXCEPT !.pc = "loop", !.immediate = immediate,
                            !.now = now,
                            !.items = list_items(fs, {}),
                            !.todo = list_items(fs, {})]
    /\ UNCHANGED <<fs, next_uuid, origin, steps>>

(* trash.rs 203-204: the next item of the loop and the test on it *)
purge_check(item) ==
    /\ last.pc = "loop"
    /\ item \in last.todo
    /\ IF to_delete(fs, {item}, last.immediate, last.now) # {}
       THEN last' = [last EXCEPT !.pc = "delete", !.item = item,
                                 !.todo = @ \ {item}]
       ELSE last' = [last EXCEPT
                        !.todo = @ \ {item},
                        !.skipped =
                            IF /\ last.immediate \/ item.deletion_date < last.now
                               /\ ~exists(fs, item.path)
                            THEN @ \cup {item.id} ELSE @]
    /\ UNCHANGED <<fs, next_uuid, origin, steps>>

(* trash.rs 219: assert!(item.path.exists()) *)
purge_assert ==
    /\ last.pc = "delete"
    /\ last' = IF exists(fs, last.item.path)
               THEN [last EXCEPT !.pc = "remove"]
               ELSE [last EXCEPT !.pc = "done", !.res = "Panic",
                                 !.step = "assert"]
    /\ UNCHANGED <<fs, next_uuid, origin, steps>>

(* trash.rs 220-224, 209-210: the removal fails on a path that is gone *)
purge_remove ==
    /\ last.pc = "remove"
    /\ IF exists(fs, last.item.path)
       THEN /\ fs' = delete_item_permanently(fs, last.item)
            /\ last' = [last EXCEPT !.pc = "loop", !.item = NoItem,
                                    !.count = @ + 1]
       ELSE /\ fs' = fs
            /\ last' = [last EXCEPT !.pc = "done", !.res = "Io",
                                    !.step = "remove"]
    /\ UNCHANGED <<next_uuid, origin, steps>>

(* trash.rs 213-215: the loop is over *)
purge_return ==
    /\ last.pc = "loop"
    /\ last.todo = {}
    /\ last' = [last EXCEPT !.pc = "done", !.res = "Ok"]
    /\ UNCHANGED <<fs, next_uuid, origin, steps>>

(* Another invocation restores an entry, or deletes one in a clean_trash of
   its own. *)
other_restores(id) ==
    LET r == restore_result(fs, id, NoRename, "none")
    IN  /\ r.res = "Ok"
        /\ fs' = r.fs
        /\ UNCHANGED <<next_uuid, origin, last>>

other_deletes(item) ==
    /\ item \in list_items(fs, {})
    /\ fs' = delete_item_permanently(fs, item)
    /\ UNCHANGED <<next_uuid, origin, last>>

(* The trash directory holds the file /a/x, trashed with deletion date d1,
   and then the directory /a, trashed with deletion date d2. *)
TwoTrashed(d1, d2) ==
    LET r == trash_loop([fs |-> Fresh, uuid |-> 1, origin |-> <<>>,
                         res |-> "Continue", step |-> "none", writes |-> 0],
                        << <<"a", "x">> >>, 1, d1, NoFault)
    IN  trash_loop([r EXCEPT !.res = "Continue"], << <<"a">> >>, 1, d2,
                   NoFault)

PurgeInit ==
    /\ \E d1, d2 \in Times :
          /\ fs = TwoTrashed(d1, d2).fs
          /\ next_uuid = TwoTrashed(d1, d2).uuid
          /\ origin = TwoTrashed(d1, d2).origin
    /\ last = Purging("list", "Running", "none")
    /\ steps = 0

PurgeList == \E immediate \in BOOLEAN, now \in Times : purge_list(immediate, now)

PurgeCheck == \E item \in last.todo : purge_check(item)

PurgeAssert == purge_assert

PurgeRemove == purge_remove

PurgeReturn == purge_return

OtherRestores == Step /\ \E id \in IdArgs : other_restores(id)

OtherDeletes == Step /\ \E item \in list_items(fs, {}) : other_deletes(item)

PurgeNext ==
    \/ PurgeList
    \/ PurgeCheck
    \/ PurgeAssert
    \/ PurgeRemove
    \/ PurgeReturn
    \/ OtherRestores
    \/ OtherDeletes

PurgeSpec == PurgeInit /\ [][PurgeNext]_vars

-----------------------------------------------------------------------------
(* TrashItem::format_deletion_date (trash.rs 27-36).  A date is the day of a
   time; the text of format("%Y-%m-%d %H:%M:%S") is the day and the time of
   day; what is shown is a label or such a text. *)

Instants == 0..((MaxDay + 1) * DayLen - 1)

(* mutant: the day of the local zone, one tick ahead of UTC *)
date_naive_local(t) == (t + 1) \div DayLen

date_naive(t) == t \div DayLen

(* NaiveDate::succ_opt: None on the last day *)
succ_opt(day) == IF day < MaxDay THEN Some(day + 1) ELSE NoAttr

unwrap_or(opt, default) == IF opt.has THEN opt.val ELSE default

Label(text) == [label |-> text, stamp |-> <<>>]

format(t) == [label |-> "", stamp |-> <<t \div DayLen, t % DayLen>>]

format_deletion_date(item, utc_now) ==
    LET now           == date_naive(utc_now)
        deletion_date == date_naive(item.deletion_date)
    IN  IF deletion_date = now THEN Label("Today")
        ELSE IF deletion_date = unwrap_or(succ_opt(now), now)
        THEN Label("Tomorrow")
        ELSE format(item.deletion_date)

(* The items shown: any id, any original path, any deletion date *)
ShownItems ==
    [id : {uuid(1), uuid(2)},
     original_path : {<<"a">>, <<"a", "x">>}, deletion_date : Instants]

FormatInit ==
    /\ fs = Fresh
    /\ next_uuid = 1
    /\ origin = <<>>
    /\ \E item \in ShownItems :
          last = [op |-> "item", item |-> item, now |-> 0, shown |-> Label("")]
    /\ steps = 0

FormatDeletionDate ==
    /\ steps = 0
    /\ steps' = 1
    /\ \E utc_now \in Instants :
          last' = [op |-> "format_deletion_date", item |-> last.item,
                   now |-> utc_now,
                   shown |-> format_deletion_date(last.item, utc_now)]
    /\ UNCHANGED <<fs, next_uuid, origin>>

FormatNext == FormatDeletionDate

FormatSpec == FormatInit /\ [][FormatNext]_vars

-----------------------------------------------------------------------------
(* What the claims speak of *)

ItemPath(id) == Append(trash_dir, id)

(* list_items() when every read succeeds *)
Listed(f) == list_items(f, {})

(* the listed entries with a given original path and deletion date *)
Matching(f, original_path, deletion_date) ==
    {e \in Listed(f) : /\ e.original_path = original_path
                       /\ e.deletion_date = deletion_date}

(* a child of the trash directory that lacks an attribute, or whose
   deletion date does not parse *)
Foreign(f, c) ==
    /\ c \in Children(f, trash_dir)
    /\ \/ ~f[c].original_path.has
       \/ ~f[c].deletion_date.has
       \/ ~parse_ok(f[c].deletion_date.val)

(* A call of trash_items on the single path P that returns Ok.  Here and
   below the conjuncts on last' follow from the call; they come first, to
   tell a step of another operation apart at once. *)
TrashOfOne(P, D) ==
    /\ last'.op = "trash_items" /\ last'.res = "Ok"
    /\ Step
    /\ trash_items(<<P>>, D, NoFault)

(* a call of restore_item_by_id, whatever the environment makes fail *)
Restore(id, rn, flt) ==
    /\ last'.op = "restore_item_by_id" /\ last'.id = id /\ last'.rename = rn
    /\ Step
    /\ restore_item_by_id(id, rn, flt)

(* a call of clean_trash, whatever the environment makes fail *)
Clean(immediate, now, unreadable) ==
    /\ last'.op = "clean_trash"
    /\ last'.immediate = immediate /\ last'.now = now
    /\ Step
    /\ \/ /\ last'.res = "Ok"
          /\ clean_trash(immediate, now, unreadable, FALSE, <<>>, {})
       \/ /\ last'.step = "read_dir"
          /\ unreadable = {}
          /\ clean_trash(immediate, now, {}, TRUE, <<>>, {})
       \/ /\ last'.step = "remove"
          /\ \E failing \in Children(fs, trash_dir),
                done \in SUBSET list_items(fs, {}) :
                clean_trash(immediate, now, unreadable, FALSE, failing, done)

-----------------------------------------------------------------------------
(* C1, as claimed: after trash_items([P], D) returns Ok, list_items() holds
   exactly one entry whose original_path is canonicalize(P) and whose
   deletion_date is D. *)
C1_ExactlyOneEntry ==
    [][\A P \in InputPaths, D \in Times :
          TrashOfOne(P, D) =>
             Cardinality(Matching(fs', canonical(P), D)) = 1]_vars

(* C1, amended: when the canonical path of P is valid UTF-8, after
   trash_items([P], D) returns Ok, list_items() holds one new entry, named by
   the fresh identifier, whose original_path is canonicalize(P) and whose
   deletion_date is D; the entries with that path and date are this one and
   those that were listed before the call. *)
C1_RoundTrip ==
    [][\A P \in InputPaths, D \in Times :
          TrashOfOne(P, D) /\ to_str_ok(canonical(P)) =>
             LET new == [id            |-> uuid(next_uuid),
                         path          |-> ItemPath(uuid(next_uuid)),
                         original_path |-> canonical(P),
                         deletion_date |-> D]
             IN  /\ new \notin Listed(fs)
                 /\ Matching(fs', canonical(P), D)
                      = Matching(fs, canonical(P), D) \cup {new}]_vars

C1_Witness ==
    /\ last.op = "trash_items" /\ last.res = "Ok" /\ last.count = 1
    /\ \E e \in Listed(fs) :
          /\ e.id = uuid(next_uuid - 1)
          /\ e.original_path = origin[e.id].path
          /\ e.deletion_date = origin[e.id].date

-----------------------------------------------------------------------------
(* C2: after an entry trashed from P is restored by its id with no rename,
   an object of the entry's kind exists at canonicalize(P), the trash
   directory has no child named id, list_items() does not hold the id,
   whatever it can read, and the id never comes back into the trash. *)
C2_RestoreInverse ==
    [][/\ \A id \in DOMAIN origin, flt \in RestoreFaults :
            Restore(id, NoRename, flt) /\ last'.res = "Ok" =>
               /\ exists(fs', origin[id].path)
               /\ fs'[origin[id].path].kind = fs[ItemPath(id)].kind
               /\ ~exists(fs', ItemPath(id))
               /\ \A U \in SUBSET Children(fs', trash_dir) :
                     \A e \in list_items(fs', U) : e.id # id
       /\ \A id \in DOMAIN origin :
            ~exists(fs, ItemPath(id)) => ~exists(fs', ItemPath(id))]_vars

C2_Witness ==
    /\ last.op = "restore_item_by_id" /\ last.res = "Ok"
    /\ ~last.rename.some
    /\ last.id \in DOMAIN origin
    /\ exists(fs, origin[last.id].path)
    /\ ~exists(fs, ItemPath(last.id))

(* C3: clean_trash(false) run at time now leaves every listed entry whose
   deletion date is now or later in the trash, with both attributes; when it
   returns Ok, the entries it listed that are gone are those whose deletion
   date is earlier than now. *)
C3_GracePeriodBoundary ==
    [][\A now \in Times, unreadable \in SUBSET Children(fs, trash_dir) :
          Clean(FALSE, now, unreadable) =>
             /\ \A e \in Listed(fs) :
                   e.deletion_date >= now =>
                      /\ exists(fs', e.path)
                      /\ fs'[e.path] = fs[e.path]
                      /\ e \in Listed(fs')
             /\ last'.res = "Ok" =>
                   \A e \in list_items(fs, unreadable) :
                      ~exists(fs', e.path) <=> e.deletion_date < now]_vars

C3_Witness ==
    /\ last.op = "clean_trash" /\ last.res = "Ok"
    /\ ~last.immediate
    /\ last.count >= 1
    /\ \E e \in Listed(fs) : e.deletion_date = last.now

(* C4: a child of the trash directory that lacks original_path or
   deletion_date, or whose deletion_date does not parse, is in no result of
   list_items(), whatever it can read, and every call of clean_trash, in
   either mode, leaves it in place and unchanged. *)
C4_ForeignEntriesSkipped ==
    [][/\ \A U \in SUBSET Children(fs', trash_dir) :
            \A e \in list_items(fs', U) : ~Foreign(fs', e.path)
       /\ \A immediate \in BOOLEAN, now \in Times,
             unreadable \in SUBSET Children(fs, trash_dir) :
            Clean(immediate, now, unreadable) =>
               \A c \in Children(fs, trash_dir) :
                  Foreign(fs, c) => exists(fs', c) /\ fs'[c] = fs[c]]_vars

C4_Witness ==
    /\ last.op = "clean_trash" /\ last.res = "Ok"
    /\ last.count >= 1
    /\ \E c \in Children(fs, trash_dir) : Foreign(fs, c)

(* C5, as claimed: after clean_trash(true) returns Ok the trash directory
   has no children left, whatever it contained before the call. *)
C5_TrashDirectoryEmpty ==
    [][\A now \in Times, unreadable \in SUBSET Children(fs, trash_dir) :
          Clean(TRUE, now, unreadable) /\ last'.res = "Ok" =>
             Children(fs', trash_dir) = {}]_vars

(* C5, amended: after clean_trash(true) returns Ok, every entry that its
   list_items() returned is deleted, whatever its deletion date, and the
   children that list_items() skipped are still there, unchanged. *)
C5_ImmediatePurge ==
    [][\A now \in Times, unreadable \in SUBSET Children(fs, trash_dir) :
          Clean(TRUE, now, unreadable) /\ last'.res = "Ok" =>
             LET listed == {e.path : e \in list_items(fs, unreadable)}
             IN  /\ Children(fs', trash_dir)
                      = Children(fs, trash_dir) \ listed
                 /\ \A c \in Children(fs', trash_dir) : fs'[c] = fs[c]]_vars

C5_Witness ==
    /\ last.op = "clean_trash" /\ last.res = "Ok"
    /\ last.immediate
    /\ last.count >= 1
    /\ Children(fs, trash_dir) # {}

(* What restore_item_by_id(id, rn) finds: the item, its original_path
   attribute, and the destination computed from them *)
HasItem(f, id) == exists(f, ItemPath(id))

HasOriginalPath(f, id) == HasItem(f, id) /\ f[ItemPath(id)].original_path.has

Destination(f, id, rn) ==
    restore_destination(f[ItemPath(id)].original_path.val, rn)

(* C6: when the destination of a restore exists, restore_item_by_id fails
   with PathAlreadyExists (unless reading the attribute itself fails), and
   nothing changes: the destination is not overwritten and the item stays at
   trash_dir/id with its attributes. *)
C6_RestoreCollision ==
    [][\A id \in IdArgs, rn \in RenameArgs, flt \in RestoreFaults :
          /\ Restore(id, rn, flt)
          /\ HasOriginalPath(fs, id)
          /\ exists(fs, Destination(fs, id, rn))
          => /\ flt # "get_attr" => last'.res = "PathAlreadyExists"
             /\ last'.res # "Ok"
             /\ fs' = fs]_vars

C6_Witness ==
    /\ last.op = "restore_item_by_id" /\ last.res = "PathAlreadyExists"
    /\ HasOriginalPath(fs, last.id)
    /\ fs[ItemPath(last.id)].deletion_date.has
    /\ exists(fs, Destination(fs, last.id, last.rename))

(* C7: when trash_dir/id does not exist, restore_item_by_id(id, _) fails
   with ItemNotFound and changes neither the filesystem nor an attribute. *)
C7_ItemNotFound ==
    [][\A id \in IdArgs, rn \in RenameArgs, flt \in RestoreFaults :
          Restore(id, rn, flt) /\ ~HasItem(fs, id) =>
             /\ last'.res = "ItemNotFound"
             /\ fs' = fs]_vars

C7_Witness ==
    /\ last.op = "restore_item_by_id" /\ last.res = "ItemNotFound"
    /\ ~HasItem(fs, last.id)

(* C8: restoring an entry that is in the trash directory and has no
   original_path attribute fails with MissingAttribute (unless reading the
   attribute itself fails), and nothing changes. *)
C8_MissingAttribute ==
    [][\A id \in IdArgs, rn \in RenameArgs, flt \in RestoreFaults :
          Restore(id, rn, flt) /\ HasItem(fs, id) /\ ~HasOriginalPath(fs, id)
          => /\ flt # "get_attr" => last'.res = "MissingAttribute"
             /\ last'.res # "Ok"
             /\ fs' = fs]_vars

C8_Witness ==
    /\ last.op = "restore_item_by_id" /\ last.res = "MissingAttribute"
    /\ HasItem(fs, last.id)
    /\ ~HasOriginalPath(fs, last.id)

(* C9: when the destination of a restore does not exist and its parent
   directory does not exist either, restore_item_by_id fails with
   InvalidOriginalPath (unless reading the attribute itself fails), and
   nothing changes: no directory is created and the item stays at
   trash_dir/id with its attributes. *)
C9_InvalidOriginalPath ==
    [][\A id \in IdArgs, rn \in RenameArgs, flt \in RestoreFaults :
          /\ Restore(id, rn, flt)
          /\ HasOriginalPath(fs, id)
          /\ ~exists(fs, Destination(fs, id, rn))
          /\ ~exists(fs, Parent(Destination(fs, id, rn)))
          => /\ flt # "get_attr" => last'.res = "InvalidOriginalPath"
             /\ last'.res # "Ok"
             /\ fs' = fs]_vars

C9_Witness ==
    /\ last.op = "restore_item_by_id" /\ last.res = "InvalidOriginalPath"
    /\ HasOriginalPath(fs, last.id)
    /\ fs[ItemPath(last.id)].deletion_date.has
    /\ ~exists(fs, Parent(Destination(fs, last.id, last.rename)))

(* C10, as claimed: a restore with a rename that returns Ok places the
   item in the parent directory of its original path, under the new name,
   and creates nothing at the original path. *)
C10_RenameKeepsParent ==
    [][\A id \in IdArgs, rn \in RenameArgs, flt \in RestoreFaults :
          Restore(id, rn, flt) /\ rn.some /\ last'.res = "Ok" =>
             LET original_path == fs[ItemPath(id)].original_path.val
                 created == DOMAIN fs' \ DOMAIN fs
             IN  /\ \E p \in created :
                       /\ Parent(p) = Parent(original_path)
                       /\ \A q \in created : IsPrefix(p, q)
                 /\ original_path \notin created]_vars

-----------------------------------------------------------------------------
(* A path of a batch that no other path of the batch names, contains or
   lies under *)
Independent(paths, i) ==
    \A j \in 1..Len(paths) :
        j # i => /\ ~IsPrefix(canonical(paths[j]), canonical(paths[i]))
                 /\ ~IsPrefix(canonical(paths[i]), canonical(paths[j]))

(* C11, as claimed: a failure on one path of trash_items, or on one entry of
   clean_trash, is skipped for that one only: every other path of the batch
   that exists (with a UTF-8 name, apart from the others) has left its place
   after the call, and of the entries clean_trash had to delete at most the
   failing one is still there. *)
C11_BatchForwardProgress ==
    [][/\ \A paths \in Batches, d \in Times :
            \A flt \in TrashFaults(paths) :
               /\ last'.op = "trash_items"
               /\ Step
               /\ trash_items(paths, d, flt)
               => \A i \in 1..Len(paths) :
                     /\ flt.at # i
                     /\ Independent(paths, i)
                     /\ canonicalize_ok(fs, paths[i])
                     /\ to_str_ok(canonical(paths[i]))
                     => ~exists(fs', canonical(paths[i]))
       /\ \A immediate \in BOOLEAN, now \in Times,
             unreadable \in SUBSET Children(fs, trash_dir) :
            Clean(immediate, now, unreadable) /\ last'.step # "read_dir" =>
               LET due == to_delete(fs, list_items(fs, unreadable),
                                    immediate, now)
               IN  Cardinality({e \in due : exists(fs', e.path)}) <= 1]_vars

-----------------------------------------------------------------------------
(* a call of list_items, whatever the environment makes fail *)
List(unreadable, read_dir_fails) ==
    /\ last'.op = "list_items"
    /\ Step
    /\ handle_list(unreadable, read_dir_fails)

(* C12: list_items fails if and only if reading the trash directory fails;
   otherwise it returns every child that can be read and has both attributes
   with a deletion date that parses, and no other, and changes nothing. *)
C12_ListItemsFailure ==
    [][\A unreadable \in SUBSET Children(fs, trash_dir),
          read_dir_fails \in BOOLEAN :
          List(unreadable, read_dir_fails) =>
             /\ last'.res = "Ok" <=> ~read_dir_fails
             /\ ~read_dir_fails =>
                   last'.listed =
                      {item_id(c[Len(c)]) :
                         c \in {c \in Children(fs, trash_dir) \ unreadable :
                                   ~Foreign(fs, c)}}
             /\ fs' = fs]_vars

C12_Witness ==
    /\ last.op = "list_items" /\ last.res = "Ok"
    /\ last.listed # {}
    /\ Cardinality(last.listed) < Cardinality(Children(fs, trash_dir))

-----------------------------------------------------------------------------
(* what a step shows of the batch that a call of trash_items was given: the
   paths that the call has trashed are paths of the batch *)
Shown(paths) ==
    /\ last'.op = "trash_items"
    /\ last'.count <= Len(paths)
    /\ \A id \in DOMAIN origin' \ DOMAIN origin :
          \E i \in 1..Len(paths) : canonical(paths[i]) = origin'[id].path

(* a call of trash_items, whatever the environment makes fail; what the
   step shows of the call is looked at first *)
Trash(paths, d, flt) ==
    /\ Shown(paths)
    /\ flt # NoFault => last'.step = flt.step
    /\ \A id \in DOMAIN origin' \ DOMAIN origin : origin'[id].date = d
    /\ Step
    /\ trash_items(paths, d, flt)

(* the paths of a batch all exist *)
AllExist(f, paths) == \A i \in 1..Len(paths) : canonicalize_ok(f, paths[i])

(* the canonical paths of a batch that are valid UTF-8 *)
Utf8Sources(paths) ==
    {canonical(paths[i]) : i \in {j \in 1..Len(paths) :
                                     to_str_ok(canonical(paths[j]))}}

(* the children of the trash directory that a step has added *)
NewChildren == Children(fs', trash_dir) \ Children(fs, trash_dir)

(* what is in the trash directory is all still there, unchanged *)
TrashKept ==
    \A q \in Subtree(fs, trash_dir) : q \in DOMAIN fs' /\ fs'[q] = fs[q]

(* C13, as claimed: after trash_items returns Ok on n distinct existing
   paths, the trash directory has n more children, what it held is
   unchanged, none of the n sources is at its place any more, and 2n
   attribute writes were made. *)
C13_NMoreChildren ==
    [][last'.op = "trash_items" /\ last'.res = "Ok" =>
       \A paths \in Batches, d \in Times :
          AllExist(fs, paths) /\ Trash(paths, d, NoFault)
          => /\ Cardinality(NewChildren) = Len(paths)
             /\ TrashKept
             /\ \A i \in 1..Len(paths) : ~exists(fs', canonical(paths[i]))
             /\ last'.writes = 2 * Len(paths)]_vars

(* C13, amended: after trash_items returns Ok on n distinct existing paths
   of which k have a canonical form that is valid UTF-8, the trash directory
   has k more children, named by identifiers that no child had, one for each
   of the k paths with original_path the canonical path and deletion_date
   the RFC-3339 form of the given date; what the trash directory held is
   unchanged, none of the k sources is at its place any more, and 2k
   attribute writes were made. *)
C13_TrashItemsCounts ==
    [][last'.op = "trash_items" /\ last'.res = "Ok" =>
       \A paths \in Batches, d \in Times :
          AllExist(fs, paths) /\ Trash(paths, d, NoFault)
          => LET k == Cardinality(Utf8Sources(paths))
             IN  /\ Cardinality(NewChildren) = k
                 /\ \A c \in NewChildren :
                       /\ c \notin DOMAIN fs
                       /\ fs'[c].deletion_date = Some(to_rfc3339(d))
                 /\ {fs'[c].original_path : c \in NewChildren}
                       = {Some(p) : p \in Utf8Sources(paths)}
                 /\ TrashKept
                 /\ \A p \in Utf8Sources(paths) : ~exists(fs', p)
                 /\ last'.writes = 2 * k]_vars

C13_Witness ==
    /\ last.op = "trash_items" /\ last.res = "Ok"
    /\ last.count = 2 /\ last.writes = 4
    /\ Cardinality(Children(fs, trash_dir)) >= 3

-----------------------------------------------------------------------------
(* a path of the user's that carries the attributes of the trash *)
Marked(f, p, original_path, deletion_date) ==
    /\ exists(f, p)
    /\ f[p].original_path = original_path
    /\ f[p].deletion_date = deletion_date

(* the paths outside the trash directory whose object a step has changed
   where it is *)
ChangedInPlace ==
    {p \in DOMAIN fs \cap DOMAIN fs' :
        ~IsPrefix(trash_dir, p) /\ fs'[p] # fs[p]}

(* C17: trash_items writes original_path, then deletion_date, on the source
   and renames it afterwards: whatever call fails, every child that the
   call has added to the trash directory carries both attributes, with the
   values of the call; a source whose rename failed is at its place with
   both, one whose deletion_date could not be written is at its place with
   original_path alone written, and one whose original_path could not be
   written is as it was.  No other object outside the trash directory is
   changed where it is. *)
C17_TrashOrdering ==
    [][last'.op = "trash_items" =>
          /\ \A c \in NewChildren :
                /\ fs'[c].original_path.has
                /\ fs'[c].deletion_date.has
                /\ parse_ok(fs'[c].deletion_date.val)
          /\ \A id \in DOMAIN origin' \ DOMAIN origin :
                Marked(fs', ItemPath(id), Some(origin'[id].path),
                       Some(to_rfc3339(origin'[id].date)))
          /\ Cardinality(ChangedInPlace) <= 1
          /\ last'.step \in {"none", "canonicalize", "set_original_path"} =>
                ChangedInPlace = {}
          /\ last'.step = "set_deletion_date" =>
                \A p \in ChangedInPlace :
                   Marked(fs', p, Some(p), fs[p].deletion_date)
          /\ last'.step = "rename" =>
                \A p \in ChangedInPlace :
                   /\ fs'[p].original_path = Some(p)
                   /\ fs'[p].deletion_date.has
                   /\ parse_ok(fs'[p].deletion_date.val)]_vars

C17_Witness ==
    /\ last.op = "trash_items" /\ last.step = "set_deletion_date"
    /\ last.count = 1
    /\ \E p \in UserPaths :
          Marked(fs, p, Some(p), NoAttr)
    /\ \A c \in Children(fs, trash_dir) :
          fs[c].original_path.has /\ fs[c].deletion_date.has

-----------------------------------------------------------------------------
(* C18: a restore that has passed its checks removes original_path, then
   deletion_date, from the item and renames it afterwards: after a restore
   that returns Ok the object at the destination carries neither attribute
   and the item is gone from the trash; a restore that fails at the rename
   leaves the item in the trash with neither attribute, one that fails at
   removing deletion_date leaves it with original_path alone removed, and
   one that fails at removing original_path leaves everything as it was. *)
C18_RestoreOrdering ==
    [][\A id \in IdArgs, rn \in RenameArgs, flt \in RestoreFaults :
          Restore(id, rn, flt) =>
             LET item == ItemPath(id)
                 dest == Destination(fs, id, rn)
             IN
             /\ last'.res = "Ok" =>
                   /\ Marked(fs', dest, NoAttr, NoAttr)
                   /\ fs'[dest].kind = fs[item].kind
                   /\ ~exists(fs', item)
             /\ last'.step = "rename" =>
                   /\ Marked(fs', item, NoAttr, NoAttr)
                   /\ ~exists(fs', dest)
             /\ last'.step = "remove_deletion_date" =>
                   /\ Marked(fs', item, NoAttr, fs[item].deletion_date)
                   /\ ~exists(fs', dest)
             /\ last'.step = "remove_original_path" => fs' = fs]_vars

C18_Witness ==
    /\ last.op = "restore_item_by_id" /\ last.res = "Ok"
    /\ last.id \in DOMAIN origin
    /\ Marked(fs, restore_destination(origin[last.id].path, last.rename),
              NoAttr, NoAttr)

-----------------------------------------------------------------------------
(* an entry that trash_items placed carries the attributes it was given *)
AsTrashed(f, org, id) ==
    Marked(f, ItemPath(id), Some(org[id].path),
           Some(to_rfc3339(org[id].date)))

(* C19, as claimed: every entry that trash_items placed in the trash
   directory has both attributes, with their trash-time values, for as long
   as it is a child of the trash directory. *)
C19_NeverMutated ==
    \A id \in DOMAIN origin :
        exists(fs, ItemPath(id)) => AsTrashed(fs, origin, id)

(* C19, amended: an entry that trash_items places in the trash directory
   carries both attributes with the values of the call, and no step changes
   it while it is a child of the trash directory, but for a restore of that
   entry that fails at removing deletion_date or at the rename: that one
   leaves the entry in the trash without original_path, not listed and not
   restorable (MissingAttribute).  A restore that fails at any other point
   changes nothing. *)
C19_AttributesKept ==
    [][/\ \A id \in DOMAIN origin' :
            exists(fs', ItemPath(id)) =>
               IF id \notin DOMAIN origin THEN AsTrashed(fs', origin', id)
               ELSE \/ /\ exists(fs, ItemPath(id))
                       /\ fs'[ItemPath(id)] = fs[ItemPath(id)]
                    \/ /\ last'.op = "restore_item_by_id" /\ last'.id = id
                       /\ last'.step \in {"remove_deletion_date", "rename"}
                       /\ ~fs'[ItemPath(id)].original_path.has
                       /\ \A e \in Listed(fs') : e.id # id
                       /\ restore_result(fs', id, NoRename, "none").res
                            = "MissingAttribute"
       /\ \A id \in IdArgs, rn \in RenameArgs, flt \in RestoreFaults :
            /\ Restore(id, rn, flt)
            /\ last'.res # "Ok"
            /\ last'.step \notin {"remove_deletion_date", "rename"}
            => fs' = fs]_vars

C19_Witness ==
    /\ last.op = "restore_item_by_id" /\ last.step = "rename"
    /\ last.id \in DOMAIN origin
    /\ Marked(fs, ItemPath(last.id), NoAttr, NoAttr)

-----------------------------------------------------------------------------
(* a run of the program that loaded its configuration without a failure
   that the environment made *)
Loads ==
    /\ last'.op \in {"rm", "restore", "clean", "list", "config_get",
                     "config_set"}
    /\ last'.fault = "none"

(* a value of the trash_dir attribute that names no directory and none that
   can be created *)
Unusable(f, attr) ==
    \/ ~attr.has
    \/ attr.val = <<>>
    \/ ~exists(f, attr.val) /\ ~is_dir(f, Parent(attr.val))

(* the value of the grace_period_in_days attribute of the trash directory
   is absent or is no number *)
Unparsable(f, dir) ==
    \/ ~exists(f, dir)
    \/ ~f[dir].grace_period_in_days.has
    \/ \E i \in 1..Len(f[dir].grace_period_in_days.val) :
          f[dir].grace_period_in_days.val[i] \notin Digits \cup {"+"}
    \/ f[dir].grace_period_in_days.val \in {<<>>, <<"+">>}

(* C14, as claimed: Config::load succeeds with the default trash directory
   whenever the trash_dir attribute of the binary is absent or unusable, and
   with a grace period of 7 days whenever the grace_period_in_days attribute
   of the trash directory is absent or unparsable. *)
C14_ConfigFallback ==
    [][Loads =>
          /\ Unusable(fs, fs[bin_path].trash_dir) =>
                last'.load = "Ok" /\ last'.trash_dir = TRASH_DIR_NAME
          /\ last'.load = "Ok" /\ Unparsable(fs, last'.trash_dir) =>
                last'.grace_period_in_days = DEFAULT_GRACE_PERIOD_IN_DAYS]_vars

-----------------------------------------------------------------------------
(* a run of rm without --immediate that loaded its configuration *)
RmRan == last'.op = "rm" /\ last'.load = "Ok" /\ ~last'.args.immediate

(* C15: every child that a run of rm adds to the trash directory carries
   the deletion date now + g days, now the time of the run and g the
   --grace-period-in-days of the run when it has one and the grace period
   of the configuration otherwise; read back, the attribute is that time. *)
C15_RmDeletionDate ==
    [][RmRan =>
          LET arg == last'.args.grace_period_in_days
              g   == IF arg.has THEN arg.val ELSE last'.grace_period_in_days
              D   == last'.now + g * DayLen
          IN  \A c \in NewChildren :
                 /\ get_attr(fs', c, DELETION_DATE_ATTR) = Some(to_rfc3339(D))
                 /\ parse_from_rfc3339(
                        get_attr(fs', c, DELETION_DATE_ATTR).val) = D]_vars

C15_Witness ==
    /\ last.op = "rm" /\ last.res = "Ok" /\ last.count = 1
    /\ last.args.grace_period_in_days = Some(1)
    /\ last.grace_period_in_days = 0
    /\ \E c \in Children(fs, trash_dir) :
          /\ get_attr(fs, c, ORIGINAL_PATH_ATTR) = Some(<<"a", "x">>)
          /\ get_attr(fs, c, DELETION_DATE_ATTR)
                = Some(to_rfc3339(last.now + DayLen))

-----------------------------------------------------------------------------
(* C16: in a run of rm (without --immediate, the date in range) the input
   paths at which nothing exists are the ones warned of; when the paths that
   exist lie apart from each other the run returns Ok, and each of them has
   left its place and has been given an entry of the trash directory. *)
C16_MissingPathSkipped ==
    [][RmRan /\ last'.res # "Panic" =>
          LET paths   == last'.args.paths
              present == {i \in 1..Len(paths) : canonicalize_ok(fs, paths[i])}
          IN  /\ last'.warned
                   = {paths[i] : i \in (1..Len(paths)) \ present}
              /\ (\A i, j \in present :
                     i # j => ~IsPrefix(paths[i], paths[j])) =>
                    /\ last'.res = "Ok"
                    /\ \A i \in present :
                          /\ ~exists(fs', paths[i])
                          /\ \E id \in DOMAIN origin' \ DOMAIN origin :
                                origin'[id].path = paths[i]]_vars

C16_Witness ==
    /\ last.op = "rm" /\ last.res = "Ok"
    /\ last.args.paths = << <<"a", "w">>, <<"a", "x">> >>
    /\ last.warned = {<<"a", "w">>}
    /\ last.count = 1
    /\ ~exists(fs, <<"a", "x">>)
    /\ \E c \in Children(fs, trash_dir) :
          get_attr(fs, c, ORIGINAL_PATH_ATTR) = Some(<<"a", "x">>)

-----------------------------------------------------------------------------
(* the items of a listing that clean_trash has to delete *)
Due(l) == {item \in l.items : l.immediate \/ item.deletion_date < l.now}

(* C20, as claimed: whenever the path of a listed entry disappears between
   the listing and its deletion, clean_trash skips the entry and returns
   without an error and without a panic: the assertion of
   delete_item_permanently never fails. *)
C20_PurgeToleratesVanished == last.res \notin {"Panic", "Io"}

(* C20, amended: an entry whose path is gone when the loop of clean_trash
   reaches it is skipped, with no error and nothing changed, and the loop
   goes on to delete an entry only when its path exists; a call that returns
   Ok has left none of the entries it had to delete, each deleted by it or
   found gone.  A path that disappears after the loop has tested it makes
   clean_trash panic at the assertion of delete_item_permanently, or fail
   with an I/O error at the removal when it disappears after the assertion:
   these are the only ways it panics or fails. *)
C20_PurgeSkipsVanished ==
    [][/\ \A item \in last.todo :
             purge_check(item) /\ ~exists(fs, item.path) =>
                /\ last'.pc = "loop" /\ last'.res = "Running"
                /\ fs' = fs
       /\ last.pc = "loop" /\ last'.pc = "delete" =>
             exists(fs, last'.item.path)
       /\ last'.res = "Panic" /\ last.res # "Panic" =>
             /\ last.pc = "delete" /\ ~exists(fs, last.item.path)
             /\ last'.step = "assert"
       /\ last'.res = "Io" /\ last.res # "Io" =>
             last.pc = "remove" /\ ~exists(fs, last.item.path)
       /\ last'.pc = "done" /\ last'.res = "Ok" =>
             /\ \A item \in Due(last') : ~exists(fs', item.path)
             /\ last'.count + Cardinality(last'.skipped)
                   = Cardinality(Due(last'))]_vars

C20_Witness ==
    /\ last.pc = "done" /\ last.res = "Ok"
    /\ last.skipped # {}
    /\ last.count = 1

-----------------------------------------------------------------------------
(* a child of the trash directory is where it was, with all that is in it,
   as it was *)
Untouched(c) ==
    \A q \in Subtree(fs, c) : q \in DOMAIN fs' /\ fs'[q] = fs[q]

(* C21: a call of trash_items, and a call of restore_item_by_id on an id,
   whatever it returns and at whatever call it fails, leaves every child of
   the trash directory other than the item of that id in its place, with its
   attributes and all that is in it unchanged. *)
C21_ItemsIsolated ==
    [][/\ last'.op = "trash_items" =>
             \A c \in Children(fs, trash_dir) : Untouched(c)
       /\ last'.op = "restore_item_by_id" =>
             \A c \in Children(fs, trash_dir) \ {ItemPath(last'.id)} :
                Untouched(c)]_vars

C21_Witness ==
    /\ last.op = "restore_item_by_id" /\ last.step = "rename"
    /\ Marked(fs, ItemPath(last.id), NoAttr, NoAttr)
    /\ \E c \in Children(fs, trash_dir) \ {ItemPath(last.id)} :
          fs[c].original_path.has /\ fs[c].deletion_date.has

-----------------------------------------------------------------------------
(* the objects of a filesystem, but for the trash directories themselves,
   which load creates *)
Objects(f) == DOMAIN f \ TrashDirValues

(* a step has removed an object: a move keeps their number *)
Removes == Cardinality(Objects(fs')) < Cardinality(Objects(fs))

(* the object that was at p is still there *)
Stays(p) == exists(fs', p) /\ fs'[p].kind = fs[p].kind

(* the object that was at p is in the trash directory, in an entry that the
   step has added and that restore_item_by_id can put back: the entry is
   listed under the path it came from, and the restore returns Ok with the
   object at p again as soon as the directory it came from exists. *)
Trashed(p) ==
    \E e \in Listed(fs') :
       /\ e.path \notin DOMAIN fs
       /\ IsPrefix(e.original_path, p)
       /\ exists(fs', Moved(e.original_path, e.path, p))
       /\ is_dir(fs', Parent(e.original_path)) =>
             LET r == restore_result(fs', e.id, NoRename, "none")
             IN  /\ r.res = "Ok"
                 /\ exists(r.fs, p)
                 /\ r.fs[p].kind = fs[p].kind

(* the paths given to a run of rm at which something exists *)
Given ==
    {canonical(last'.args.paths[i]) :
        i \in {j \in 1..Len(last'.args.paths) :
                  canonicalize_ok(fs, last'.args.paths[j])}}

(* C22, as claimed: no command but the purge (clean, and rm with
   --auto-clean) removes an object, and every path given to rm stays where
   it is or ends up in the trash directory, from where it can be restored. *)
C22_PurgeOnlyIrreversible ==
    [][/\ Removes =>
             \/ last'.op = "clean"
             \/ last'.op = "rm" /\ last'.load = "Ok" /\ last'.args.auto_clean
       /\ last'.op = "rm" /\ last'.load = "Ok" /\ ~last'.args.auto_clean =>
             \A p \in Given : Stays(p) \/ Trashed(p)]_vars

(* C22, amended: an object is removed by the purge (clean, and rm with
   --auto-clean) and by rm with --immediate, which deletes the paths it is
   given without moving them to the trash directory, and by no other
   command; every path given to rm without --immediate and without
   --auto-clean stays where it is or ends up in the trash directory, from
   where it can be restored. *)
C22_RemovalByPurgeOrImmediate ==
    [][/\ Removes =>
             \/ last'.op = "clean"
             \/ /\ last'.op = "rm" /\ last'.load = "Ok"
                /\ last'.args.auto_clean \/ last'.args.immediate
       /\ RmRan /\ ~last'.args.auto_clean =>
             \A p \in Given : Stays(p) \/ Trashed(p)
       /\ last'.op = "rm" /\ last'.load = "Ok" /\ last'.args.immediate =>
             \A p \in Given : ~exists(fs', p) /\ ~Trashed(p)]_vars

C22_Witness ==
    /\ last.op = "rm" /\ last.load = "Ok" /\ last.args.immediate
    /\ last.args.paths = << <<"a", "x">> >>
    /\ ~exists(fs, <<"a", "x">>)
    /\ exists(fs, <<"a">>)
    /\ Children(fs, trash_dir) = {}

-----------------------------------------------------------------------------
(* C23: what format_deletion_date shows depends on the deletion date and on
   the current time alone: "Today" exactly when the UTC day of the deletion
   date is the current UTC day, "Tomorrow" exactly when it is the day after,
   and the day and time of the deletion date in every other case. *)
C23_FormatDeletionDate ==
    last.op = "format_deletion_date" =>
       LET d == last.item.deletion_date \div DayLen
           n == last.now \div DayLen
       IN  /\ last.shown = Label("Today") <=> d = n
           /\ last.shown = Label("Tomorrow") <=> d = n + 1
           /\ d \notin {n, n + 1} =>
                 /\ last.shown.label = ""
                 /\ last.shown.stamp
                       = <<d, last.item.deletion_date - d * DayLen>>

C23_Witness ==
    /\ last.op = "format_deletion_date"
    /\ last.shown = Label("Tomorrow")
    /\ last.item.deletion_date - last.now < DayLen

-----------------------------------------------------------------------------
(* the object at q is now at or below a child that the step has added to
   the trash directory, the child recording the path it came from *)
InNewEntry(q) ==
    \E c \in NewChildren :
       /\ fs'[c].original_path.has
       /\ IsPrefix(fs'[c].original_path.val, q)
       /\ LET m == Moved(fs'[c].original_path.val, c, q)
          IN  m \in DOMAIN fs' /\ fs'[m].kind = fs[q].kind

(* the object at p is now a child of the trash directory *)
NewChildOf(p) ==
    \E c \in NewChildren :
       /\ fs'[c].original_path = Some(p)
       /\ fs'[c].kind = fs[p].kind

(* C24 as stated: after trash_items returns, with Ok or with an error, every
   input item that existed is at its original location or is a child of the
   trash directory, and not both. *)
C24_InputAtOriginOrChild ==
    [][last'.op = "trash_items" =>
          \A paths \in Batches, d \in Times :
             \A flt \in TrashFaults(paths) :
                Trash(paths, d, flt) =>
                   \A i \in 1..Len(paths) :
                      canonicalize_ok(fs, paths[i]) =>
                         (Stays(canonical(paths[i]))
                            # NewChildOf(canonical(paths[i])))]_vars

(* C24: trash_items never destroys data: after it returns, with Ok or with
   an error raised at any step, every object that existed is still where it
   was or is at or below a new child of the trash directory, never both, and
   the number of objects is unchanged. *)
C24_NothingDestroyed ==
    [][last'.op = "trash_items" =>
          /\ Cardinality(DOMAIN fs') = Cardinality(DOMAIN fs)
          /\ \A q \in DOMAIN fs : Stays(q) # InNewEntry(q)]_vars

C24_Witness ==
    /\ last.op = "trash_items"
    /\ last.res = "Io"
    /\ last.step = "canonicalize"
    /\ last.count = 1
    /\ \E c \in Children(fs, trash_dir) :
          /\ fs[c].original_path = Some(<<"a">>)
          /\ Append(c, "x") \in DOMAIN fs
          /\ <<"a">> \notin DOMAIN fs

-----------------------------------------------------------------------------
(* The life of an id: an item is in the trash, the item of the earlier call
   of trash_items; entries leave by restore_item_by_id and by clean_trash,
   and trash_items makes new ones, from the same original path or another. *)

Turn == steps <= MaxSteps /\ steps' = steps + 1

ReuseInit ==
    /\ fs = Earlier.fs
    /\ next_uuid = Earlier.uuid
    /\ origin = Earlier.origin
    /\ last = Did("new", "Ok", "none")
    /\ steps = 0

ReuseTrash ==
    /\ Turn
    /\ \E p \in UserPaths, d \in Times : trash_items(<<p>>, d, NoFault)

ReuseRestore ==
    /\ Turn
    /\ \E id \in IdArgs, rn \in RenameArgs :
          restore_item_by_id(id, rn, "none")

ReusePurge ==
    /\ Turn
    /\ \E immediate \in BOOLEAN, now \in Times :
          clean_trash(immediate, now, {}, FALSE, <<>>, {})

ReuseNext == ReuseTrash \/ ReuseRestore \/ ReusePurge

ReuseSpec == ReuseInit /\ [][ReuseNext]_vars

(* the ids that trash_items has given to an entry and that have no entry in
   the trash directory now: the entry has left *)
Left(f) == {id \in DOMAIN origin : ItemPath(id) \notin DOMAIN f}

(* C25: an id is usable at most once: a successful restore and a purge take
   the entry out of the trash directory; an id whose entry has left has no
   entry again, whatever is trashed afterwards, the same original path
   included; and restore_item_by_id with such an id fails with ItemNotFound
   and changes nothing. *)
C25_IdUsedOnce ==
    [][/\ last'.op = "restore_item_by_id" /\ last'.res = "Ok" =>
             ItemPath(last'.id) \notin DOMAIN fs'
       /\ last'.op = "clean_trash" =>
             \A c \in Children(fs, trash_dir) \ Children(fs', trash_dir) :
                Subtree(fs', c) = {}
       /\ Left(fs) \subseteq {id \in DOMAIN origin' :
                                 ItemPath(id) \notin DOMAIN fs'}
       /\ last'.op = "restore_item_by_id" /\ last'.id \in Left(fs) =>
             /\ last'.res = "ItemNotFound"
             /\ fs' = fs]_vars

C25_Witness ==
    /\ last.op = "restore_item_by_id"
    /\ last.res = "ItemNotFound"
    /\ last.id \in Left(fs)
    /\ \E id \in DOMAIN origin \ Left(fs) :
          origin[id].path = origin[last.id].path

-----------------------------------------------------------------------------
(* what the run before this one has set: config set with this key has
   returned Ok and has written the value *)
HasSet(key) ==
    /\ last.op = "config_set"
    /\ last.res = "Ok"
    /\ last.args[1] = key
    /\ key = "grace-period" => parse_u32_ok(last.args[2])

(* the grace period that Config::load has read is that of the attribute of
   the directory p: 7 without the attribute, d when it holds d *)
GraceOf(p) ==
    /\ ~fs[p].grace_period_in_days.has =>
          last'.grace_period_in_days = DEFAULT_GRACE_PERIOD_IN_DAYS
    /\ \A d \in GraceValues :
          fs[p].grace_period_in_days = Some(to_string(d)) =>
             last'.grace_period_in_days = d

(* C26: the configuration round trip: after set_grace_period(d) the next
   Config::load with the same trash directory gives the grace period d;
   after set_trash_dir(p), p not empty, the next Config::load succeeds with
   the trash directory p, which exists then, and with the grace period of
   p's own attribute, 7 if p has none. *)
C26_ConfigRoundTrip ==
    [][Loads =>
          /\ HasSet("grace-period") /\ last'.load = "Ok"
                /\ last'.trash_dir = last.trash_dir =>
                \A d \in GraceValues :
                   last.args[2] \in {to_string(d), <<"+">> \o to_string(d)} =>
                      last'.grace_period_in_days = d
          /\ HasSet("trash-dir") /\ last.args[2] # <<>> =>
                /\ last'.load = "Ok"
                /\ last'.trash_dir = last.args[2]
                /\ exists(fs', last.args[2])
                /\ last.args[2] \in DOMAIN fs => GraceOf(last.args[2])
                /\ last.args[2] \notin DOMAIN fs =>
                      last'.grace_period_in_days
                         = DEFAULT_GRACE_PERIOD_IN_DAYS]_vars

====
